---------------------------- MODULE Spec2Model ----------------------------
(***************************************************************************)
(* A model of blockbuster: the slot store (store.go) layered on an ordered *)
(* key-value store, and the ingestion cycle (main.go: supervisor loop,     *)
(* scrape, its scheduler loop and its worker goroutines).                  *)
(*                                                                         *)
(* Go values are modelled as follows.                                      *)
(*   uint64      four 16-bit limbs, most significant first, so that all    *)
(*               64 bits are kept and arithmetic wraps at 2^64             *)
(*   []byte      a sequence of numbers in 0..255                           *)
(*   *T          a sequence of length at most one: <<>> is nil, <<x>> a    *)
(*               pointer to x                                              *)
(*   error       a string, "nil" for no error                              *)
(*   time        whole seconds                                             *)
(***************************************************************************)
EXTENDS Integers, Sequences, FiniteSets, TLC

VARIABLES
    db,         \* the badger store: a function from the present keys to their values
    abs,        \* history of the store API: slot -> the record last put and not purged since
    last,       \* the last store API call and what it returned
    now,        \* wall clock, seconds
    cancelled,  \* the process-wide context has been cancelled
    sup,        \* the supervisor goroutine: main's loop and the scrape call it runs
    wk,         \* the worker goroutines of every cycle
    gcs         \* the store's gc goroutine, its ticker, and how far Close has got

vars == <<db, abs, last, now, cancelled, sup, wk, gcs>>

---------------------------------------------------------------------------
(* Go values *)

Nil == <<>>
Ptr(x) == <<x>>
NoErr == "nil"

LimbBase == 256 * 256

\* uint64(n) for a small natural n
U64(n) == <<0, 0, n \div LimbBase, n % LimbBase>>

\* a + b in uint64
Add64(a, b) ==
    LET s4 == a[4] + b[4]
        s3 == a[3] + b[3] + (s4 \div LimbBase)
        s2 == a[2] + b[2] + (s3 \div LimbBase)
        s1 == a[1] + b[1] + (s2 \div LimbBase)
    IN  <<s1 % LimbBase, s2 % LimbBase, s3 % LimbBase, s4 % LimbBase>>

Not64(a) == <<LimbBase - 1 - a[1], LimbBase - 1 - a[2], LimbBase - 1 - a[3], LimbBase - 1 - a[4]>>

\* a - b in uint64
Sub64(a, b) == Add64(Add64(a, Not64(b)), U64(1))

\* a < b in uint64
Lt64(a, b) ==
    \E i \in 1..4 : a[i] < b[i] /\ \A j \in 1..(i - 1) : a[j] = b[j]

Le64(a, b) == ~Lt64(b, a)

\* int64(a): the two's complement reading, for the values within 2^31 of zero
Int64(a) ==
    CASE a[1] = 0 /\ a[2] = 0 /\ a[3] < LimbBase \div 2 ->
            a[3] * LimbBase + a[4]
      [] a[1] = LimbBase - 1 /\ a[2] = LimbBase - 1 /\ a[3] >= LimbBase \div 2 ->
            0 - ((LimbBase - 1 - a[3]) * LimbBase + (LimbBase - 1 - a[4])) - 1

\* math.MaxInt = 2^63 - 1
MathMaxInt == <<(LimbBase \div 2) - 1, LimbBase - 1, LimbBase - 1, LimbBase - 1>>

\* binary.BigEndian.PutUint64
PutUint64(x) ==
    <<x[1] \div 256, x[1] % 256, x[2] \div 256, x[2] % 256,
      x[3] \div 256, x[3] % 256, x[4] \div 256, x[4] % 256>>

\* binary.BigEndian.Uint64
Uint64(b) ==
    <<b[1] * 256 + b[2], b[3] * 256 + b[4], b[5] * 256 + b[6], b[7] * 256 + b[8]>>

\* bytes.Compare(a, b) < 0
BytesLt(a, b) ==
    LET n == IF Len(a) < Len(b) THEN Len(a) ELSE Len(b)
        differ == {i \in 1..n : a[i] # b[i]}
    IN  IF differ = {} THEN Len(a) < Len(b)
        ELSE LET i == CHOOSE x \in differ : \A y \in differ : x <= y
             IN  a[i] < b[i]

HasPrefix(k, p) == Len(k) >= Len(p) /\ SubSeq(k, 1, Len(p)) = p

\* s[from:]
Tail_(s, from) == SubSeq(s, from + 1, Len(s))

---------------------------------------------------------------------------
(* The libraries store.go calls, on the short inputs of this model *)

DataVersionPhase0 == U64(0)
DataVersionAltair == U64(1)
DataVersionBellatrix == U64(2)

\* A signed beacon block, cut down to two one-byte fields.
MarshalSSZ(b) == <<b.Message, b.Signature>>

UnmarshalSSZ(bytes) ==
    IF Len(bytes) = 2
    THEN [err |-> NoErr, val |-> [Message |-> bytes[1], Signature |-> bytes[2]]]
    ELSE [err |-> "incorrect size", val |-> [Message |-> 0, Signature |-> 0]]

\* snappy block format of an input shorter than 61 bytes: the length as a
\* varint, then one literal element (tag byte (n-1)<<2, then the bytes)
SnappyEncode(b) ==
    IF Len(b) = 0 THEN <<0>> ELSE <<Len(b), (Len(b) - 1) * 4>> \o b

SnappyDecode(e) ==
    IF Len(e) = 0 THEN [err |-> "snappy: corrupt input", val |-> <<>>]
    ELSE IF e[1] = 0
    THEN IF Len(e) = 1 THEN [err |-> NoErr, val |-> <<>>]
         ELSE [err |-> "snappy: corrupt input", val |-> <<>>]
    ELSE IF Len(e) = e[1] + 2 /\ e[2] = (e[1] - 1) * 4
    THEN [err |-> NoErr, val |-> SubSeq(e, 3, Len(e))]
    ELSE [err |-> "snappy: corrupt input", val |-> <<>>]

ErrKeyNotFound == "Key not found"

\* txn.Get
TxnGet(d, k) ==
    IF k \in DOMAIN d THEN [err |-> NoErr, val |-> d[k]]
    ELSE [err |-> ErrKeyNotFound, val |-> <<>>]

\* txn.Set
TxnSet(d, k, v) == [x \in (DOMAIN d) \cup {k} |-> IF x = k THEN v ELSE d[x]]

\* txn.Delete
TxnDelete(d, k) == [x \in (DOMAIN d) \ {k} |-> d[x]]

\* txn.NewIterator: the keys of the transaction's snapshot in ascending
\* byte order, and the position of the iterator among them
NewIterator(d) ==
    LET S == DOMAIN d
        rank == [x \in S |-> Cardinality({y \in S : BytesLt(y, x)})]
    IN  [keys |-> [i \in 1..Cardinality(S) |-> CHOOSE x \in S : rank[x] = i - 1],
         pos |-> 1]

\* it.Seek(k): to the smallest key >= k
Seek(it, k) ==
    LET at == {i \in 1..Len(it.keys) : ~BytesLt(it.keys[i], k)}
    IN  [it EXCEPT !.pos = IF at = {} THEN Len(it.keys) + 1
                           ELSE CHOOSE i \in at : \A j \in at : i <= j]

\* it.Next()
ItNext(it) == [it EXCEPT !.pos = @ + 1]

\* it.Item().Key()
ItKey(it) == it.keys[it.pos]

\* it.ValidForPrefix(p)
ValidForPrefix(it, p) == it.pos <= Len(it.keys) /\ HasPrefix(ItKey(it), p)

---------------------------------------------------------------------------
(* store.go *)

keyBoundaries == <<0>>
keySlot == <<1>>

ZeroRoot == [i \in 1..32 |-> 0]

\* append(keySlot, slotBytes[:]...)
SlotKey(slot) == keySlot \o PutUint64(slot)

\* &BlockWithRoot{VersionedSignedBeaconBlock: &spec.VersionedSignedBeaconBlock{}}
NewBlockWithRoot ==
    [BlockRoot |-> ZeroRoot, Version |-> U64(0),
     Phase0 |-> Nil, Altair |-> Nil, Bellatrix |-> Nil]

\* Filled reporting only the slots that hold a block
FilledBlocksOnly(d, slot) ==
    LET got == TxnGet(d, SlotKey(slot))
    IN  [exists |-> got.err = NoErr /\ Len(got.val) > 40, err |-> NoErr]

Filled(d, slot) ==
    LET got == TxnGet(d, SlotKey(slot))
    IN  IF got.err = NoErr THEN [exists |-> TRUE, err |-> NoErr]
        ELSE IF got.err # ErrKeyNotFound THEN [exists |-> FALSE, err |-> got.err]
        ELSE [exists |-> FALSE, err |-> NoErr]

\* the version test against the largest uint64 instead of math.MaxInt
IsEmptyVersionMaxUint(version) == version = Not64(U64(0))

\* the version test of Count's and Block's bodies
IsEmptyVersion(version) == version = MathMaxInt

\* Count's loop without the version test
RECURSIVE CountLoopAll(_, _, _, _)
CountLoopAll(d, it, slots, blocks) ==
    IF ~ValidForPrefix(it, keySlot) THEN [slots |-> slots, blocks |-> blocks]
    ELSE CountLoopAll(d, ItNext(it), slots + 1, blocks + 1)

RECURSIVE CountLoop(_, _, _, _)
CountLoop(d, it, slots, blocks) ==
    IF ~ValidForPrefix(it, keySlot) THEN [slots |-> slots, blocks |-> blocks]
    ELSE LET version == Uint64(SubSeq(d[ItKey(it)], 1, 8))
         IN  CountLoop(d, ItNext(it), slots + 1,
                       IF ~IsEmptyVersion(version) THEN blocks + 1 ELSE blocks)

Count(d) == CountLoop(d, Seek(NewIterator(d), keySlot), 0, 0)

\* Block's switch with the Altair case filling the Phase0 field
DecodeBodyWrongField(block, blockBytes) ==
    LET got == UnmarshalSSZ(blockBytes)
    IN  CASE block.Version = DataVersionPhase0 ->
               [block |-> Ptr([block EXCEPT !.Phase0 = Ptr(got.val)]), err |-> got.err]
          [] block.Version = DataVersionAltair ->
               [block |-> Ptr([block EXCEPT !.Phase0 = Ptr(got.val)]), err |-> got.err]
          [] block.Version = DataVersionBellatrix ->
               [block |-> Ptr([block EXCEPT !.Bellatrix = Ptr(got.val)]), err |-> got.err]
          [] OTHER -> [block |-> Ptr(block), err |-> NoErr]

\* Block's switch on the version
DecodeBody(block, blockBytes) ==
    LET got == UnmarshalSSZ(blockBytes)
    IN  CASE block.Version = DataVersionPhase0 ->
               [block |-> Ptr([block EXCEPT !.Phase0 = Ptr(got.val)]), err |-> got.err]
          [] block.Version = DataVersionAltair ->
               [block |-> Ptr([block EXCEPT !.Altair = Ptr(got.val)]), err |-> got.err]
          [] block.Version = DataVersionBellatrix ->
               [block |-> Ptr([block EXCEPT !.Bellatrix = Ptr(got.val)]), err |-> got.err]
          [] OTHER -> [block |-> Ptr(block), err |-> NoErr]

Block(d, slot) ==
    LET got == TxnGet(d, SlotKey(slot))
    IN  IF got.err # NoErr THEN [block |-> Ptr(NewBlockWithRoot), err |-> got.err]
        ELSE
        LET val == got.val
            version == Uint64(SubSeq(val, 1, 8))
            withVersion == [NewBlockWithRoot EXCEPT !.Version = version]
        IN  IF IsEmptyVersion(version) THEN [block |-> Nil, err |-> NoErr]
            ELSE
            LET withRoot == [withVersion EXCEPT !.BlockRoot = SubSeq(val, 9, 40)]
                dec == SnappyDecode(Tail_(val, 40))
            IN  IF dec.err # NoErr THEN [block |-> Ptr(withRoot), err |-> dec.err]
                ELSE DecodeBody(withRoot, dec.val)

\* SetBlock's switch on the version: the bytes of the block
EncodeBody(b) ==
    CASE b.Version = DataVersionPhase0 -> MarshalSSZ(b.Phase0[1])
      [] b.Version = DataVersionAltair -> MarshalSSZ(b.Altair[1])
      [] b.Version = DataVersionBellatrix -> MarshalSSZ(b.Bellatrix[1])
      [] OTHER -> <<>>

\* the value SetBlock stores for a record, or for nil
SlotValue(block) ==
    LET versionBytes == IF block = Nil THEN PutUint64(MathMaxInt)
                        ELSE PutUint64(block[1].Version)
        root == IF block # Nil THEN block[1].BlockRoot ELSE ZeroRoot
        blockBytes == IF block # Nil THEN SnappyEncode(EncodeBody(block[1])) ELSE <<>>
    IN  versionBytes \o root \o blockBytes

\* SetBlock appending to the value the key already holds
SetBlockAppend(d, slot, block) ==
    LET got == TxnGet(d, SlotKey(slot))
    IN  TxnSet(d, SlotKey(slot), got.val \o SlotValue(block))

SetBlock(d, slot, block) == TxnSet(d, SlotKey(slot), SlotValue(block))

\* Purge's test with the upper end excluded
PastRangeExclusive(slot, to) == Le64(to, slot)

\* Purge's test that ends the iteration
PastRange(slot, to) == Lt64(to, slot)

RECURSIVE PurgeLoop(_, _, _, _)
PurgeLoop(d, it, to, deleted) ==
    IF ~ValidForPrefix(it, keySlot) THEN [db |-> d, deleted |-> deleted]
    ELSE LET key == ItKey(it)
             slot == Uint64(Tail_(key, Len(keySlot)))
         IN  IF PastRange(slot, to) THEN [db |-> d, deleted |-> deleted]
             ELSE PurgeLoop(TxnDelete(d, key), ItNext(it), to, deleted + 1)

Purge(d, from, to) == PurgeLoop(d, Seek(NewIterator(d), SlotKey(from)), to, 0)

---------------------------------------------------------------------------
(* The chain the upstream node serves *)

\* the fork in force at a slot
VersionAt(n) ==
    IF n < 1 THEN DataVersionPhase0
    ELSE IF n < 2 THEN DataVersionAltair
    ELSE DataVersionBellatrix

RootOf(n) == [i \in 1..32 |-> (i + n) % 256]

\* the block of slot n, as the record SetBlock is given
ChainBlock(n) ==
    LET body == Ptr([Message |-> n % 256, Signature |-> (n + 200) % 256])
        v == VersionAt(n)
    IN  [BlockRoot |-> RootOf(n), Version |-> v,
         Phase0 |-> IF v = DataVersionPhase0 THEN body ELSE Nil,
         Altair |-> IF v = DataVersionAltair THEN body ELSE Nil,
         Bellatrix |-> IF v = DataVersionBellatrix THEN body ELSE Nil]

\* what SetBlock is given for slot n: nil, or the block of the slot
BlockInputs(n) == {Nil, Ptr(ChainBlock(n))}

---------------------------------------------------------------------------
(* The store API under every sequence of writes.  Filled, Count and Block  *)
(* read the store and change nothing: they are evaluated on the states.    *)

MaxStoreSlot == 2

\* a slot whose key differs from the small ones in its higher bytes
FarSlot == 256 * 257

StoreSlotNums == (0..MaxStoreSlot) \cup {FarSlot}

NoCall == [op |-> "none", n |-> 0, again |-> FALSE]

EmptyDb == [k \in {} |-> <<>>]

\* a Store built without OpenStore has no gc goroutine
GcAbsent == [pc |-> "absent", tick |-> FALSE, close |-> "open"]

\* OpenStore: go s.gc()
GcSpawned == [pc |-> "start", tick |-> FALSE, close |-> "open"]

\* no ingestion runs beside the store
InitCycleIdle ==
    /\ now = 0
    /\ cancelled = FALSE
    /\ sup = [pc |-> "idle"]
    /\ wk = <<>>

InitStore ==
    /\ db = EmptyDb
    /\ abs = [n \in {} |-> Nil]
    /\ last = NoCall
    /\ gcs = GcAbsent
    /\ InitCycleIdle

CallSetBlock(s, r) ==
    /\ db' = SetBlock(db, U64(s), r)
    /\ abs' = [n \in (DOMAIN abs) \cup {s} |-> IF n = s THEN r ELSE abs[n]]
    /\ last' = [op |-> "SetBlock", n |-> 0,
                 again |-> s \in DOMAIN abs /\ abs[s] = r]
    /\ UNCHANGED <<gcs, now, cancelled, sup, wk>>

CallPurge(a, b) ==
    LET res == Purge(db, U64(a), U64(b))
    IN  /\ db' = res.db
        /\ abs' = [n \in {x \in DOMAIN abs : x < a \/ x > b} |-> abs[n]]
        /\ last' = [op |-> "Purge", n |-> res.deleted, again |-> FALSE]
        /\ UNCHANGED <<gcs, now, cancelled, sup, wk>>

NextStore ==
    \/ \E s \in StoreSlotNums : \E r \in BlockInputs(s) : CallSetBlock(s, r)
    \/ \E a \in StoreSlotNums, b \in StoreSlotNums : CallPurge(a, b)

SpecStore == InitStore /\ [][NextStore]_vars

---------------------------------------------------------------------------
(* Claims about the store, under SpecStore *)

PresentNums(d) == {s \in StoreSlotNums : SlotKey(U64(s)) \in DOMAIN d}

StoredVersion(d, k) == Uint64(SubSeq(d[k], 1, 8))

\* what a Purge(a, b) step must do to the store and return
PurgeContract(a, b) ==
    LET present == PresentNums(db)
        inRange == {s \in present : a <= s /\ s <= b}
    IN  /\ DOMAIN db' = {SlotKey(U64(s)) : s \in present \ inRange}
        /\ \A k \in DOMAIN db' : db'[k] = db[k]
        /\ last'.n = Cardinality(inRange)
        /\ \A s \in inRange : Block(db', U64(s)).err = ErrKeyNotFound
        /\ \A s \in present \ inRange : Block(db', U64(s)) = Block(db, U64(s))

\* C1: every Purge(a, b) removes exactly the present slot keys s with
\* a <= s <= b, leaves every other key present with its value unchanged, and
\* returns the number of keys that were present in [a, b] before the call.
C1_PurgeExact ==
    [][last'.op = "Purge" =>
          \A a \in StoreSlotNums, b \in StoreSlotNums :
              CallPurge(a, b) => PurgeContract(a, b)]_vars

\* every slot was filled, a Purge(1, MaxStoreSlot) returned the number of
\* slots in its range, and the slots below and above the range alone remain
C1_Witness ==
    /\ last.op = "Purge"
    /\ last.n = MaxStoreSlot
    /\ \A s \in {0, FarSlot} : Block(db, U64(s)).err = NoErr
    /\ \A s \in 1..MaxStoreSlot : Block(db, U64(s)).err = ErrKeyNotFound

\* C2: for every slot s whose last SetBlock(s, r) has not been purged since,
\* Block(s) returns r without error: nil for confirmed-empty, else a record of
\* the same version, root and payload.
C2_RoundTrip ==
    \A s \in DOMAIN abs : Block(db, U64(s)) = [block |-> abs[s], err |-> NoErr]

\* a block of each supported version and a confirmed-empty record are stored
C2_Witness ==
    /\ last.op = "SetBlock"
    /\ {0, 1, 2, FarSlot} \subseteq DOMAIN abs
    /\ abs[0] = Ptr(ChainBlock(0)) /\ ChainBlock(0).Version = DataVersionPhase0
    /\ abs[1] = Ptr(ChainBlock(1)) /\ ChainBlock(1).Version = DataVersionAltair
    /\ abs[2] = Ptr(ChainBlock(2)) /\ ChainBlock(2).Version = DataVersionBellatrix
    /\ abs[FarSlot] = Nil

\* C3: Block(s) returns the NotFound error when the key of s is absent, and
\* no record with no error when the key is present with the sentinel version.
C3_NotFoundVsEmpty ==
    \A s \in StoreSlotNums :
        LET k == SlotKey(U64(s))
            res == Block(db, U64(s))
        IN  /\ k \notin DOMAIN db => res.err = ErrKeyNotFound
            /\ (k \in DOMAIN db /\ StoredVersion(db, k) = MathMaxInt)
                   => (res.block = Nil /\ res.err = NoErr)

\* one slot is absent and another is confirmed-empty
C3_Witness ==
    /\ SlotKey(U64(0)) \notin DOMAIN db
    /\ SlotKey(U64(1)) \in DOMAIN db
    /\ StoredVersion(db, SlotKey(U64(1))) = MathMaxInt
    /\ Block(db, U64(0)).err = ErrKeyNotFound
    /\ Block(db, U64(1)) = [block |-> Nil, err |-> NoErr]

\* C4: Filled(s) is true exactly when some SetBlock(s, _) has happened and no
\* Purge covering s has happened since, whatever record was written.
C4_FilledIffPut ==
    \A s \in StoreSlotNums :
        Filled(db, U64(s)) = [exists |-> s \in DOMAIN abs, err |-> NoErr]

\* a confirmed-empty slot is filled, and a slot put earlier has been purged
C4_Witness ==
    /\ last.op = "Purge"
    /\ last.n = 1
    /\ 2 \in DOMAIN abs /\ abs[2] = Nil /\ Filled(db, U64(2)).exists
    /\ ~Filled(db, U64(1)).exists

\* C5: Count() returns slots = the number of slot keys present and blocks =
\* the number of those whose stored version is not the Empty sentinel.
C5_CountExact ==
    LET c == Count(db)
    IN  /\ c.slots = Cardinality(DOMAIN db)
        /\ c.slots = Cardinality(DOMAIN abs)
        /\ c.blocks = Cardinality({k \in DOMAIN db : StoredVersion(db, k) # MathMaxInt})
        /\ c.blocks = Cardinality({s \in DOMAIN abs : abs[s] # Nil})

\* three slots are present, one of them confirmed-empty
C5_Witness ==
    /\ Count(db) = [slots |-> 3, blocks |-> 2]
    /\ \E s \in DOMAIN abs : abs[s] = Nil

\* C6: a SetBlock(s, r) repeating the last SetBlock(s, r) of a slot that is
\* still filled leaves the whole store as it was: Block(s), the set of present
\* keys, Count() and every other slot's record.
C6_SetBlockIdempotent ==
    [][\A s \in StoreSlotNums : \A r \in BlockInputs(s) :
          (s \in DOMAIN abs /\ abs[s] = r /\ CallSetBlock(s, r))
              => /\ db' = db
                 /\ Block(db', U64(s)) = Block(db, U64(s))
                 /\ Count(db') = Count(db)]_vars

\* a SetBlock has just repeated the record its slot already held
C6_Witness ==
    /\ last.op = "SetBlock"
    /\ last.again
    /\ Cardinality(DOMAIN db) >= 2

---------------------------------------------------------------------------
(* main.go: the upstream node *)

GenesisTime == 1000

\* err.Error() as a sequence of phrases
PhraseBlockID == "Could not get block from block ID:"
PhraseNotFound == "rpc error: code = NotFound"
PhraseRequested == "desc = Could not find requested block:"
PhraseNilBlock == "signed beacon block can't be nil"
PhraseReconstruct ==
    "Could not reconstruct full execution payload to create signed beacon block:"
PhraseBlockHash == "block hash field in execution header"

\* the strings of the worker's loop over the known missing-block texts
missingBlockStrings ==
    << <<PhraseBlockID, PhraseNotFound>>,
       <<PhraseNotFound, PhraseRequested, PhraseNilBlock>>,
       <<PhraseReconstruct, PhraseBlockHash>> >>

\* errors of the upstream node that tell of a slot without a block
MissingErrors ==
    { <<"GET failed with status 404:", PhraseBlockID, PhraseNotFound, "desc = no block">>,
      <<"GET failed with status 404:", PhraseNotFound, PhraseRequested, PhraseNilBlock>>,
      <<"GET failed with status 500:", PhraseReconstruct, PhraseBlockHash, "is nil">> }

\* another error of the upstream node: it shares a phrase with the texts above
\* and holds none of them
OtherErrors ==
    { <<"GET failed with status 500:", PhraseNotFound, "desc = Could not find requested state">> }

\* what SignedBeaconBlock(ctx, slot) may return: the block of the slot, when
\* the slot is one the chain has reached, or an error
FetchOutcomes(slot, head) ==
    {[block |-> Ptr(ChainBlock(Int64(s))), err |-> <<>>] : s \in {x \in {slot} : Le64(x, head)}}
    \cup {[block |-> Nil, err |-> e] : e \in MissingErrors \cup OtherErrors}

\* strings.Contains
Contains(str, sub) ==
    \E i \in 1..(Len(str) - Len(sub) + 1) : SubSeq(str, i, i + Len(sub) - 1) = sub

---------------------------------------------------------------------------
(* main.go: main's loop, scrape, the workers *)

secondsPerSlot == 12

\* scrapeSlots (450 * 32) and scrapeConcurrency (16), scaled down: the window
\* stays wider than the lag, the workers fewer than the slots to catch up on
scrapeSlots == 9
scrapeConcurrency == 2

\* the 8 of "at least 8 slots behind"
lagSlots == 8

\* the sleep after a failed scrape
backoffSeconds == 16

\* how often scrape is called, how far past its start slot a scheduler looks,
\* how far the clock runs past the first head, and its step
MaxCycles == 2
MaxAdvance == 2
HorizonSlots == 3
TickSeconds == secondsPerSlot

EndTime == GenesisTime + secondsPerSlot * (scrapeSlots + HorizonSlots)

Workers == (1..MaxCycles) \X (1..scrapeConcurrency)

NoJob == [pc |-> "unborn", slot |-> U64(0), err |-> <<>>]

\* the goroutine of main before its first iteration
SupInit ==
    [pc |-> "loop", cycle |-> 0, currentSlot |-> U64(0), startSlot |-> U64(0),
     slot |-> U64(0), wake |-> 0, purges |-> 0, ret |-> <<>>]

Init ==
    /\ db = EmptyDb
    /\ abs = [n \in {} |-> Nil]
    /\ last = NoCall
    /\ now \in {GenesisTime + secondsPerSlot * h + 5 : h \in {scrapeSlots - 1, scrapeSlots}}
    /\ cancelled = FALSE
    /\ sup = SupInit
    /\ wk = [w \in Workers |-> NoJob]
    /\ gcs = GcSpawned

\* phase0.Slot(time.Since(genesisTime).Seconds() / secondsPerSlot)
CurrentSlot(t) == U64((t - GenesisTime) \div secondsPerSlot)

\* currentSlot - scrapeSlots
StartSlot(currentSlot) == Sub64(currentSlot, U64(scrapeSlots))

\* genesisTime.Add(secondsPerSlot * time.Second * time.Duration(slot+8))
FutureSlot(slot) ==
    GenesisTime + secondsPerSlot * Int64(Add64(slot, U64(lagSlots)))

\* a test of the error text for the status alone
NotFoundByStatus(errString) == Contains(errString, <<PhraseNotFound>>)

\* the worker's test of the error text
NotFound(errString) ==
    \E i \in 1..Len(missingBlockStrings) : Contains(errString, missingBlockStrings[i])

\* main's loop: the context is not done, call scrape
SupLoop ==
    /\ sup.pc = "loop"
    /\ ~cancelled
    /\ sup.cycle < MaxCycles
    /\ sup' = [sup EXCEPT !.pc = "connect", !.cycle = @ + 1, !.purges = 0, !.ret = <<>>]
    /\ UNCHANGED <<gcs, db, abs, last, now, cancelled, wk>>

\* main's loop: the context is done, the goroutine returns
SupExit ==
    /\ sup.pc = "loop"
    /\ cancelled
    /\ sup' = [sup EXCEPT !.pc = "exit"]
    /\ UNCHANGED <<gcs, db, abs, last, now, cancelled, wk>>

\* scrape: connecting, or asking for the genesis time, fails
ScrapeConnectFail ==
    /\ sup.pc = "connect"
    /\ sup' = [sup EXCEPT !.pc = "backoff", !.wake = now + backoffSeconds,
                          !.ret = <<"failed to connect to node">>]
    /\ UNCHANGED <<gcs, db, abs, last, now, cancelled, wk>>

\* scrape: the slot to start scraping from
ScrapeStart ==
    /\ sup.pc = "connect"
    /\ sup' = [sup EXCEPT !.pc = "purge",
                          !.currentSlot = CurrentSlot(now),
                          !.startSlot = StartSlot(CurrentSlot(now))]
    /\ UNCHANGED <<gcs, db, abs, last, now, cancelled, wk>>

\* scrape: purge the slots out of range, spawn the workers, enter the loop
ScrapePurge ==
    /\ sup.pc = "purge"
    /\ db' = Purge(db, U64(0), sup.startSlot).db
    /\ wk' = [w \in Workers |->
                IF w[1] = sup.cycle THEN [NoJob EXCEPT !.pc = "select"] ELSE wk[w]]
    /\ sup' = [sup EXCEPT !.pc = "filled", !.slot = sup.startSlot, !.purges = @ + 1]
    /\ UNCHANGED <<gcs, abs, last, now, cancelled>>

\* the scheduler's loop without the test of the store
SchedCheckNoSkip ==
    /\ sup.pc = "filled"
    /\ Int64(Sub64(sup.slot, sup.startSlot)) <= MaxAdvance
    /\ IF now < FutureSlot(sup.slot)
       THEN sup' = [sup EXCEPT !.pc = "wait"]
       ELSE sup' = [sup EXCEPT !.pc = "enqueue"]
    /\ UNCHANGED <<gcs, db, abs, last, now, cancelled, wk>>

\* the scheduler's loop: skip a filled slot, else wait for it or enqueue it
SchedCheck ==
    /\ sup.pc = "filled"
    /\ Int64(Sub64(sup.slot, sup.startSlot)) <= MaxAdvance
    /\ IF Filled(db, sup.slot).exists
       THEN sup' = [sup EXCEPT !.slot = Add64(@, U64(1))]
       ELSE IF now < FutureSlot(sup.slot)
       THEN sup' = [sup EXCEPT !.pc = "wait"]
       ELSE sup' = [sup EXCEPT !.pc = "enqueue"]
    /\ UNCHANGED <<gcs, db, abs, last, now, cancelled, wk>>

\* the scheduler's select: the timer fires
SchedTimer ==
    /\ sup.pc = "wait"
    /\ now >= FutureSlot(sup.slot)
    /\ sup' = [sup EXCEPT !.pc = "enqueue"]
    /\ UNCHANGED <<gcs, db, abs, last, now, cancelled, wk>>

\* a scrape that stops every worker of its cycle when it returns the error
SchedRecvErrTearDown(w) ==
    /\ sup.pc = "wait"
    /\ w[1] = sup.cycle
    /\ wk[w].pc = "publish"
    /\ sup' = [sup EXCEPT !.pc = "backoff", !.wake = now + backoffSeconds,
                          !.ret = wk[w].err]
    /\ wk' = [v \in Workers |->
                IF v[1] = sup.cycle THEN [wk[v] EXCEPT !.pc = "exited"] ELSE wk[v]]
    /\ UNCHANGED <<gcs, db, abs, last, now, cancelled>>

\* the scheduler's select: a worker's error arrives, scrape returns it
SchedRecvErr(w) ==
    /\ sup.pc = "wait"
    /\ w[1] = sup.cycle
    /\ wk[w].pc = "publish"
    /\ sup' = [sup EXCEPT !.pc = "backoff", !.wake = now + backoffSeconds,
                          !.ret = wk[w].err]
    /\ wk' = [wk EXCEPT ![w] = [@ EXCEPT !.pc = "exited"]]
    /\ UNCHANGED <<gcs, db, abs, last, now, cancelled>>

\* the scheduler's select: the context is done, scrape returns nil
SchedCancelled ==
    /\ sup.pc = "wait"
    /\ cancelled
    /\ sup' = [sup EXCEPT !.pc = "loop"]
    /\ UNCHANGED <<gcs, db, abs, last, now, cancelled, wk>>

\* jobs <- slot meets a worker's <-jobs
Dispatch(w) ==
    /\ sup.pc = "enqueue"
    /\ w[1] = sup.cycle
    /\ wk[w].pc = "select"
    /\ wk' = [wk EXCEPT ![w] = [@ EXCEPT !.pc = "fetch", !.slot = sup.slot]]
    /\ sup' = [sup EXCEPT !.pc = "filled", !.slot = Add64(@, U64(1))]
    /\ UNCHANGED <<gcs, db, abs, last, now, cancelled>>

\* main going on at once after a failed scrape
BackoffNoSleep ==
    /\ sup.pc = "backoff"
    /\ sup' = [sup EXCEPT !.pc = "loop"]
    /\ UNCHANGED <<gcs, db, abs, last, now, cancelled, wk>>

\* main's sleep after a failed scrape
Backoff ==
    /\ sup.pc = "backoff"
    /\ now >= sup.wake
    /\ sup' = [sup EXCEPT !.pc = "loop"]
    /\ UNCHANGED <<gcs, db, abs, last, now, cancelled, wk>>

\* a worker's select: the context is done
WorkerCancelled(w) ==
    /\ wk[w].pc = "select"
    /\ cancelled
    /\ wk' = [wk EXCEPT ![w] = [@ EXCEPT !.pc = "exited"]]
    /\ UNCHANGED <<gcs, db, abs, last, now, cancelled, sup>>

\* the worker's test of what the fetch returned: a failure that is fatal
IsFatal(out) == out.err # <<>> /\ ~NotFound(out.err)

\* a worker's job: fetch the block of the slot, then publish the failure and
\* return, or save the block (nil when the error tells of a missing block)
WorkerJob(w, out) ==
    /\ wk[w].pc = "fetch"
    /\ IF IsFatal(out)
       THEN /\ wk' = [wk EXCEPT ![w] = [@ EXCEPT !.pc = "publish", !.err = out.err]]
            /\ UNCHANGED db
       ELSE /\ db' = SetBlock(db, wk[w].slot, IF out.err # <<>> THEN Nil ELSE out.block)
            /\ wk' = [wk EXCEPT ![w] = [@ EXCEPT !.pc = "select"]]
    /\ UNCHANGED <<gcs, abs, last, now, cancelled, sup>>

\* the interrupt: main cancels the context
Cancel ==
    /\ ~cancelled
    /\ cancelled' = TRUE
    /\ UNCHANGED <<gcs, db, abs, last, now, sup, wk>>

Tick ==
    /\ now + TickSeconds <= EndTime
    /\ now' = now + TickSeconds
    /\ UNCHANGED <<gcs, db, abs, last, cancelled, sup, wk>>

\* the process while it runs: nothing in main cancels the context
Next ==
    \/ SupLoop
    \/ ScrapeConnectFail
    \/ ScrapeStart
    \/ ScrapePurge
    \/ SchedCheck
    \/ SchedTimer
    \/ Backoff
    \/ \E w \in Workers : SchedRecvErr(w)
    \/ \E w \in Workers : Dispatch(w)
    \/ \E w \in Workers : \E out \in FetchOutcomes(wk[w].slot, CurrentSlot(now)) :
          WorkerJob(w, out)
    \/ Tick

Spec == Init /\ [][Next]_vars

---------------------------------------------------------------------------
(* Claims about the ingestion cycle, under Spec *)

\* the head of the chain, as a number, at time t
HeadNum(t) == (t - GenesisTime) \div secondsPerSlot

\* the record of a confirmed-empty slot is stored under the slot's key
EmptyStored(d, slot) ==
    /\ Filled(d, slot).exists
    /\ Block(d, slot) = [block |-> Nil, err |-> NoErr]

C8_NotBeforeLag ==
    [][\A w \in Workers :
          Dispatch(w) =>
              /\ HeadNum(now) >= lagSlots
              /\ Le64(sup.slot, U64(HeadNum(now) - lagSlots))]_vars

\* C9: in every cycle the purge up to the start slot happens once and before
\* the first dispatch, and every slot the scheduler puts on the job queue is
\* at or above the start slot of the cycle.
C9_AboveBoundary ==
    sup.pc = "enqueue" =>
        /\ sup.purges = 1
        /\ Le64(sup.startSlot, sup.slot)

\* the workers of the running cycle
CycleWorkers == {w \in Workers : w[1] = sup.cycle}

\* C10: the scheduler is never blocked on the job queue while every worker of
\* its cycle is blocked publishing an error nobody receives.
C10_NoStuckPublish ==
    ~(/\ sup.pc = "enqueue"
      /\ \A w \in CycleWorkers : wk[w].pc = "publish")

---------------------------------------------------------------------------
\* the process with a cancellation of the context at any moment
NextShutdown ==
    \/ Next
    \/ Cancel
    \/ SupExit
    \/ SchedCancelled
    \/ \E w \in Workers : WorkerCancelled(w)

SpecShutdown == Init /\ [][NextShutdown]_vars

---------------------------------------------------------------------------
(* Claims about cancellation, under SpecShutdown *)

\* C11: once the context is cancelled the scheduler is never left blocked on
\* the job queue with no worker of its cycle left to receive from it, so the
\* cycle returns.
C11_CancelStopsScheduler ==
    ~(/\ cancelled
      /\ sup.pc = "enqueue"
      /\ \A w \in CycleWorkers : wk[w].pc = "exited")

---------------------------------------------------------------------------
(* Claims about restarts and leftover workers *)

\* C12: while the context is not cancelled, a scrape that returns an error
\* sends main into a sleep of backoffSeconds from the moment of the return;
\* main leaves the sleep only when it is over and only into a new call of
\* scrape, which computes the head and the start slot from the clock of that
\* moment, purges up to the start slot, spawns its own workers and sets the
\* cursor to the start slot; main's loop never ends.
C12_RestartAfterError ==
    [][sup' # sup =>
          /\ (sup'.ret # <<>> /\ sup.ret = <<>>) =>
                sup'.pc = "backoff" /\ sup'.wake = now + backoffSeconds
          /\ sup.pc = "backoff" =>
                now >= sup.wake /\ sup'.pc = "loop"
          /\ sup.pc = "loop" =>
                sup'.pc = "connect" /\ sup'.cycle = sup.cycle + 1 /\ sup'.purges = 0
          /\ (sup.pc = "connect" /\ sup'.ret = <<>>) =>
                /\ sup'.pc = "purge"
                /\ sup'.startSlot = Sub64(U64(HeadNum(now)), U64(scrapeSlots))
          /\ sup.pc = "purge" =>
                /\ sup'.pc = "filled"
                /\ sup'.slot = sup.startSlot
                /\ sup'.purges = 1
                /\ db' = Purge(db, U64(0), sup.startSlot).db
                /\ \A w \in CycleWorkers : wk[w].pc = "unborn" /\ wk'[w].pc = "select"
          /\ sup'.pc = "exit" => cancelled]_vars

\* a worker's error ended the first cycle and the second cycle has purged
\* and set its cursor, later than the first by the backoff at least
C12_Witness ==
    /\ sup.cycle = 2
    /\ sup.pc = "filled"
    /\ sup.purges = 1
    /\ sup.slot = sup.startSlot
    /\ \E w \in Workers : w[1] = 1 /\ wk[w].pc = "exited"

\* the clock advancing by the length of the backoff, so that a restart can
\* find the head one slot further than the cycle before it did
TickBackoff ==
    /\ now + backoffSeconds <= EndTime
    /\ now' = now + backoffSeconds
    /\ UNCHANGED <<gcs, db, abs, last, cancelled, sup, wk>>

NextRestart ==
    \/ SupLoop
    \/ ScrapeConnectFail
    \/ ScrapeStart
    \/ ScrapePurge
    \/ SchedCheck
    \/ SchedTimer
    \/ Backoff
    \/ \E w \in Workers : SchedRecvErr(w)
    \/ \E w \in Workers : Dispatch(w)
    \/ \E w \in Workers : \E out \in FetchOutcomes(wk[w].slot, CurrentSlot(now)) :
          WorkerJob(w, out)
    \/ TickBackoff

SpecRestart == Init /\ [][NextRestart]_vars

\* C13: no two workers, of the running cycle or of an earlier one, hold a job
\* for the same slot at the same time.
C13_DisjointJobs ==
    \A w \in Workers, v \in Workers :
        (w # v /\ wk[w].pc = "fetch" /\ wk[v].pc = "fetch") => wk[w].slot # wk[v].slot

---------------------------------------------------------------------------
(* Claims about the retention window *)

\* what a node that is up returns: the block of the slot, or an error that
\* tells of a slot without a block
HealthyOutcomes(slot, head) == {out \in FetchOutcomes(slot, head) : ~IsFatal(out)}

\* the process beside a node that is up: the connection is made and no fetch
\* fails fatally
NextHealthy ==
    \/ SupLoop
    \/ ScrapeStart
    \/ ScrapePurge
    \/ SchedCheck
    \/ SchedTimer
    \/ \E w \in Workers : Dispatch(w)
    \/ \E w \in Workers : \E out \in HealthyOutcomes(wk[w].slot, CurrentSlot(now)) :
          WorkerJob(w, out)
    \/ Tick

\* its goroutines and its clock never stop while one of them can take a step
SpecHealthy == Init /\ [][NextHealthy]_vars /\ WF_vars(NextHealthy)

\* the slot of a slot key
KeySlotOf(k) == Uint64(Tail_(k, Len(keySlot)))

\* the store holds a record more than scrapeSlots slots behind the head
StaleRecord ==
    /\ HeadNum(now) >= scrapeSlots
    /\ \E k \in DOMAIN db : Lt64(KeySlotOf(k), U64(HeadNum(now) - scrapeSlots))

---------------------------------------------------------------------------
(* Claims about resuming on a store that holds slots already *)

\* the slot a former run of the process left in the store
ResumeSlot == U64(1)

\* the process starts on the store a former run has left on disk
InitResume ==
    /\ db \in {SetBlock(EmptyDb, ResumeSlot, r) : r \in BlockInputs(Int64(ResumeSlot))}
    /\ abs = [n \in {} |-> Nil]
    /\ last = NoCall
    /\ now \in {GenesisTime + secondsPerSlot * h + 5 : h \in {scrapeSlots - 1, scrapeSlots}}
    /\ cancelled = FALSE
    /\ sup = SupInit
    /\ wk = [w \in Workers |-> NoJob]
    /\ gcs = GcSpawned

SpecResume == InitResume /\ [][Next]_vars

\* C15: a slot the scheduler finds filled when it visits it is passed over,
\* with no wait and no dispatch; the scheduler waits for or enqueues only a
\* slot it found not filled, and the slot a worker receives is that slot.
C15_FilledNeverDispatched ==
    [][/\ (sup.pc = "filled" /\ sup' # sup) =>
            IF Filled(db, sup.slot).exists
            THEN /\ sup'.pc = "filled"
                 /\ sup'.slot = Add64(sup.slot, U64(1))
                 /\ wk' = wk
            ELSE /\ sup'.pc \in {"wait", "enqueue"}
                 /\ sup'.slot = sup.slot
       /\ (sup.pc = "wait" /\ sup'.pc = "enqueue") => sup'.slot = sup.slot
       /\ \A w \in Workers :
            (wk[w].pc # "fetch" /\ wk'[w].pc = "fetch") =>
                /\ sup.pc = "enqueue"
                /\ wk'[w].slot = sup.slot
                /\ sup.slot # ResumeSlot \/ ~Filled(db, ResumeSlot).exists]_vars

\* the scheduler has passed over the slot it found in the store and waits for
\* the slot after it; no worker was given the slot
C15_Witness ==
    /\ sup.pc = "wait"
    /\ sup.slot = Add64(ResumeSlot, U64(1))
    /\ Filled(db, ResumeSlot).exists
    /\ \A w \in Workers : wk[w].slot # ResumeSlot
    /\ \E w \in Workers : wk[w].pc = "select" /\ Filled(db, wk[w].slot).exists

---------------------------------------------------------------------------
(* store.go: gc and Close, beside the calls of the store API *)

\* gc: start := time.Now(); s.db.RunValueLogGC(0.7) is called
GcRun ==
    /\ gcs.pc = "start"
    /\ gcs' = [gcs EXCEPT !.pc = "running"]
    /\ UNCHANGED <<db, abs, last, now, cancelled, sup, wk>>

\* gc: RunValueLogGC returns, the goroutine reaches its select
GcRunReturns ==
    /\ gcs.pc = "running"
    /\ gcs' = [gcs EXCEPT !.pc = "select"]
    /\ UNCHANGED <<db, abs, last, now, cancelled, sup, wk>>

\* the ticker of gc fires into its channel, which holds one tick
GcTicker ==
    /\ gcs.pc \in {"start", "running", "select"}
    /\ ~gcs.tick
    /\ gcs' = [gcs EXCEPT !.tick = TRUE]
    /\ UNCHANGED <<db, abs, last, now, cancelled, sup, wk>>

\* gc's select: case <-ticker.C
GcSelectTick ==
    /\ gcs.pc = "select"
    /\ gcs.tick
    /\ gcs' = [gcs EXCEPT !.pc = "start", !.tick = FALSE]
    /\ UNCHANGED <<db, abs, last, now, cancelled, sup, wk>>

\* gc's select: case <-s.ctx.Done(): return
GcSelectDone ==
    /\ gcs.pc = "select"
    /\ gcs.close # "open"
    /\ gcs' = [gcs EXCEPT !.pc = "exited"]
    /\ UNCHANGED <<db, abs, last, now, cancelled, sup, wk>>

\* Close: s.cancel()
CloseCancel ==
    /\ gcs.close = "open"
    /\ gcs' = [gcs EXCEPT !.close = "cancelled"]
    /\ UNCHANGED <<db, abs, last, now, cancelled, sup, wk>>

\* Close: return s.db.Close()
CloseDb ==
    /\ gcs.close = "cancelled"
    /\ gcs' = [gcs EXCEPT !.close = "closed"]
    /\ UNCHANGED <<db, abs, last, now, cancelled, sup, wk>>

\* a store opened by OpenStore
InitStoreLife ==
    /\ db = EmptyDb
    /\ abs = [n \in {} |-> Nil]
    /\ last = NoCall
    /\ gcs = GcSpawned
    /\ InitCycleIdle

\* the calls of the store API until Close, the gc goroutine, Close
NextStoreLife ==
    \/ gcs.close = "open" /\ NextStore
    \/ GcRun
    \/ GcRunReturns
    \/ GcTicker
    \/ GcSelectTick
    \/ GcSelectDone
    \/ CloseCancel
    \/ CloseDb

SpecStoreLife == InitStoreLife /\ [][NextStoreLife]_vars

\* C16: once Close has cancelled the store's context the gc goroutine starts
\* no run of the value log GC: it may only finish the run it is in, and exit.
C16_NoRunAfterClose ==
    [][(gcs.close # "open" /\ gcs'.pc # gcs.pc) =>
          \/ gcs'.pc = "exited"
          \/ gcs.pc = "running" /\ gcs'.pc = "select"]_vars

---------------------------------------------------------------------------
(* Claims about the stored value, under SpecStore *)

\* the value under the key of slot number s
StoredValue(s) == db[SlotKey(U64(s))]

\* C17: the value stored for a confirmed-empty record is the 8 bytes of the
\* sentinel version alone; the value stored for a block is its 8 version
\* bytes, then its 32 root bytes, then its compressed payload.
C17_ValueLayout ==
    \A s \in DOMAIN abs :
        IF abs[s] = Nil
        THEN StoredValue(s) = PutUint64(MathMaxInt)
        ELSE /\ SubSeq(StoredValue(s), 1, 8) = PutUint64(abs[s][1].Version)
             /\ SubSeq(StoredValue(s), 9, 40) = abs[s][1].BlockRoot
             /\ SnappyDecode(Tail_(StoredValue(s), 40)).val = EncodeBody(abs[s][1])

---------------------------------------------------------------------------
(* Claims about the workers a cycle leaves behind, under Spec *)

\* the workers of cycle c that are alive: spawned and not returned
LiveWorkers(c) ==
    {w \in Workers : w[1] = c /\ wk[w].pc \in {"select", "fetch", "publish"}}

\* cycle c has spawned its workers
Spawned(c) == \E w \in Workers : w[1] = c /\ wk[w].pc # "unborn"

\* C18: while the context is not cancelled, the only worker that returns is
\* the one whose error the scheduler received; every other worker of a cycle
\* stays alive after the cycle has ended; a job goes only to a worker of the
\* cycle that enqueues it; so a cycle that has ended keeps all its workers but
\* one, and a running cycle has its full set.
C18_WorkersLeftBehind ==
    /\ [][\A w \in Workers :
            /\ (wk'[w].pc = "exited" /\ wk[w].pc # "exited") =>
                  /\ wk[w].pc = "publish"
                  /\ sup'.ret = wk[w].err
                  /\ \A v \in Workers \ {w} : wk'[v] = wk[v]
            /\ (wk'[w].pc = "fetch" /\ wk[w].pc # "fetch") =>
                  /\ w[1] = sup.cycle
                  /\ wk'[w].slot = sup.slot]_vars
    /\ [](\A c \in 1..MaxCycles :
            Spawned(c) =>
                /\ Cardinality(LiveWorkers(c)) >= scrapeConcurrency - 1
                /\ (c = sup.cycle /\ sup.pc \in {"filled", "wait", "enqueue"}) =>
                      Cardinality(LiveWorkers(c)) = scrapeConcurrency)

\* the second cycle runs with its full set of workers while the first cycle's
\* workers, but the one that delivered the error, are still alive
C18_Witness ==
    /\ sup.cycle = 2
    /\ sup.pc \in {"filled", "wait", "enqueue"}
    /\ Cardinality(LiveWorkers(2)) = scrapeConcurrency
    /\ Cardinality(LiveWorkers(1)) = scrapeConcurrency - 1
    /\ \E w \in LiveWorkers(1) : wk[w].pc = "select"

---------------------------------------------------------------------------
(* Claim about the store during a cycle, under Spec *)

\* C19: once the cycle's purge is done, and for as long as that cycle runs,
\* every record of the store is for a slot at or above the cycle's startSlot.
C19_NoRecordBelowBoundary ==
    (sup.purges = 1 /\ sup.pc \in {"filled", "wait", "enqueue"}) =>
        \A k \in DOMAIN db : Le64(sup.startSlot, KeySlotOf(k))

---------------------------------------------------------------------------
(* Claim about the retention boundary, under Spec *)

\* C20: whenever a cycle has computed its head slot and its startSlot, the
\* startSlot is at most the head slot (as unsigned 64-bit numbers), and the
\* cursor's first value, startSlot, is therefore not above the head.
C20_BoundaryAtMostHead ==
    (sup.pc \in {"purge", "filled", "wait", "enqueue"}) =>
        Le64(sup.startSlot, sup.currentSlot)

===========================================================================
